---- MODULE Spec2Model ----
(***************************************************************************)
(* Model of app.py: the bounded LRU answer cache, the LaTeX sanitizer, the *)
(* /chat tutor handler (synchronous and streamed) and call_llm_json.       *)
(* Text is a sequence of one-character strings.                            *)
(***************************************************************************)
EXTENDS Integers, Sequences, FiniteSets, TLC

(***************************************************************************)
(* Bounds of the model.                                                    *)
(***************************************************************************)
MaxTokens == 4
MaxCap == 2
MaxOps == 5

VARIABLES
  maxsize,     \* LRU.maxsize
  cache,       \* the OrderedDict: a sequence of [k, v], oldest position first
  streaming,   \* STREAMING_DEFAULT
  last,        \* the call or request handled last, with the cache before it
  clock,       \* number of cache calls made so far
  lastUse,     \* key -> clock of its last access (0: never)
  insertedAt,  \* key -> clock of the put that inserted it (0: never)
  threads,     \* per in-flight request: position in the handler and locals
  san,         \* the sanitizer pipeline: raw text and each stage's output
  llm          \* call_llm_json: route position, routes tried, result

vars == <<maxsize, cache, streaming, last, clock, lastUse, insertedAt, threads, san, llm>>

(***************************************************************************)
(* Characters and character classes used by the regular expressions.       *)
(***************************************************************************)
BS == "\\"

Letters ==
  {"a","b","c","d","e","f","g","h","i","j","k","l","m","n","o","p","q","r","s",
   "t","u","v","w","x","y","z","A","B","C","D","E","F","G","H","I","J","K","L",
   "M","N","O","P","Q","R","S","T","U","V","W","X","Y","Z"}

Digits == {"0","1","2","3","4","5","6","7","8","9"}

Space == {" ", "\n", "\t", "\r"}

\* [A-Za-z\[\]] of the lookahead in _collapse_command_backslashes
LetterOrBracket == Letters \cup {"[", "]"}

\* [=\(\)\[\]\+\-\*/\^_] of _fix_overescape_in_math
MathPunct == {"=", "(", ")", "[", "]", "+", "-", "*", "/", "^", "_"}

\* (?:pt|em|ex|mm|cm|in|bp|px)
Units ==
  {<<"p","t">>, <<"e","m">>, <<"e","x">>, <<"m","m">>, <<"c","m">>,
   <<"i","n">>, <<"b","p">>, <<"p","x">>}

(***************************************************************************)
(* Text helpers.                                                           *)
(***************************************************************************)
\* s[i..] (empty when i is past the end)
Tail_from(s, i) == SubSeq(s, i, Len(s))

\* does pat occur in s at position i
MatchAt(s, pat, i) ==
  /\ i >= 1
  /\ i + Len(pat) - 1 <= Len(s)
  /\ SubSeq(s, i, i + Len(pat) - 1) = pat

\* first position >= i where pat occurs in s, 0 when there is none
RECURSIVE Find(_, _, _)
Find(s, pat, i) ==
  IF i + Len(pat) - 1 > Len(s) THEN 0
  ELSE IF MatchAt(s, pat, i) THEN i
  ELSE Find(s, pat, i + 1)

\* first position >= i whose character is not in class (Len(s)+1 at the end)
RECURSIVE SkipWhile(_, _, _)
SkipWhile(s, i, class) ==
  IF i <= Len(s) /\ s[i] \in class THEN SkipWhile(s, i + 1, class) ELSE i

\* str.replace(pat, rep): non-overlapping occurrences, left to right
RECURSIVE Replace(_, _, _, _)
Replace(s, pat, rep, i) ==
  IF i > Len(s) THEN << >>
  ELSE IF MatchAt(s, pat, i) THEN rep \o Replace(s, pat, rep, i + Len(pat))
  ELSE <<s[i]>> \o Replace(s, pat, rep, i + 1)

\* str.strip(): leading and trailing whitespace removed
RECURSIVE RStrip(_)
RStrip(s) ==
  IF s # << >> /\ s[Len(s)] \in Space THEN RStrip(SubSeq(s, 1, Len(s) - 1)) ELSE s

Strip(s) == RStrip(Tail_from(s, SkipWhile(s, 1, Space)))

(***************************************************************************)
(* Stage 1: _collapse_command_backslashes.                                 *)
(***************************************************************************)
\* re.sub(r"\\\\(?=[A-Za-z\[\]])", r"\\", s)
RECURSIVE SubDoubled(_, _)
SubDoubled(s, i) ==
  IF i > Len(s) THEN << >>
  ELSE IF /\ i + 2 <= Len(s)
          /\ s[i] = BS /\ s[i + 1] = BS
          /\ s[i + 2] \in LetterOrBracket
       THEN <<BS>> \o SubDoubled(s, i + 2)
       ELSE <<s[i]>> \o SubDoubled(s, i + 1)

\* re.sub(r"\\{3,}", r"\\", s)
RECURSIVE SubRuns(_, _)
SubRuns(s, i) ==
  IF i > Len(s) THEN << >>
  ELSE LET e == SkipWhile(s, i, {BS})
       IN  IF e - i >= 3 THEN <<BS>> \o SubRuns(s, e)
           ELSE <<s[i]>> \o SubRuns(s, i + 1)

collapse_command_backslashes(s) == SubRuns(SubDoubled(s, 1), 1)

(***************************************************************************)
(* Stage 2: the layout directive  \[\s*\d+(?:\.\d+)?\s*(?:unit)\s*\]       *)
(***************************************************************************)
\* the position after a directive that starts at i, 0 when none starts there
MatchDirective(s, i) ==
  IF ~(i <= Len(s) /\ s[i] = "[") THEN 0
  ELSE
    LET d0 == SkipWhile(s, i + 1, Space)
        d1 == SkipWhile(s, d0, Digits)
        f1 == IF d1 <= Len(s) /\ s[d1] = "." THEN SkipWhile(s, d1 + 1, Digits) ELSE 0
        d2 == IF f1 > d1 + 1 THEN f1 ELSE d1
        u0 == SkipWhile(s, d2, Space)
        u1 == u0 + 2
        c0 == SkipWhile(s, u1, Space)
    IN  IF /\ d1 > d0
           /\ u0 + 1 <= Len(s)
           /\ <<s[u0], s[u0 + 1]>> \in Units
           /\ c0 <= Len(s)
           /\ s[c0] = "]"
        THEN c0 + 1
        ELSE 0

RECURSIVE SubDirective(_, _)
SubDirective(s, i) ==
  IF i > Len(s) THEN << >>
  ELSE LET e == MatchDirective(s, i)
       IN  IF e > 0 THEN SubDirective(s, e)
           ELSE <<s[i]>> \o SubDirective(s, i + 1)

strip_directives(s) == SubDirective(s, 1)

(***************************************************************************)
(* Stage 3: _fix_overescape_in_math inside $$...$$ and \(...\).            *)
(***************************************************************************)
LeftEsc   == <<BS, "l", "e", "f", "t", BS, "[">>
LeftFix   == <<BS, "l", "e", "f", "t", "[">>
RightEsc  == <<BS, "r", "i", "g", "h", "t", BS, "]">>
RightFix  == <<BS, "r", "i", "g", "h", "t", "]">>

\* re.sub(r"\\([=\(\)\[\]\+\-\*/\^_])", r"\1", math)
RECURSIVE SubPunct(_, _)
SubPunct(s, i) ==
  IF i > Len(s) THEN << >>
  ELSE IF i + 1 <= Len(s) /\ s[i] = BS /\ s[i + 1] \in MathPunct
       THEN <<s[i + 1]>> \o SubPunct(s, i + 2)
       ELSE <<s[i]>> \o SubPunct(s, i + 1)

fix_overescape_in_math(math) ==
  SubPunct(Replace(Replace(math, LeftEsc, LeftFix, 1), RightEsc, RightFix, 1), 1)

DisplayDelim == <<"$", "$">>
InlineOpen   == <<BS, "(">>
InlineClose  == <<BS, ")">>

\* _fix_display / _fix_inline: the replacement for one matched span
fix_display(interior) == DisplayDelim \o fix_overescape_in_math(interior) \o DisplayDelim
fix_inline(interior)  == InlineOpen \o fix_overescape_in_math(interior) \o InlineClose

\* _MATH_DISPLAY.sub(_fix_display, s): \$\$(.*?)\$\$ with DOTALL, leftmost match
\* first, lazy interior, scanning on after each match
RECURSIVE SubDisplay(_, _)
SubDisplay(s, i) ==
  LET o == Find(s, DisplayDelim, i)
      c == IF o = 0 THEN 0 ELSE Find(s, DisplayDelim, o + 2)
  IN  IF c = 0 THEN Tail_from(s, i)
      ELSE SubSeq(s, i, o - 1) \o fix_display(SubSeq(s, o + 2, c - 1))
             \o SubDisplay(s, c + 2)

\* _MATH_INLINE.sub(_fix_inline, s)
RECURSIVE SubInline(_, _)
SubInline(s, i) ==
  LET o == Find(s, InlineOpen, i)
      c == IF o = 0 THEN 0 ELSE Find(s, InlineClose, o + 2)
  IN  IF c = 0 THEN Tail_from(s, i)
      ELSE SubSeq(s, i, o - 1) \o fix_inline(SubSeq(s, o + 2, c - 1))
             \o SubInline(s, c + 2)

\* the repair applied to the whole text, spans or not
fix_everywhere(s) == fix_overescape_in_math(s)

\* s = _MATH_DISPLAY.sub(_fix_display, s)
fix_display_spans(s) == SubDisplay(s, 1)

\* s = _MATH_INLINE.sub(_fix_inline, s)
fix_inline_spans(s) == SubInline(s, 1)

sanitize_latex(s) ==
  fix_inline_spans(fix_display_spans(
    strip_directives(collapse_command_backslashes(s))))

(***************************************************************************)
(* class LRU(OrderedDict)                                                  *)
(***************************************************************************)
\* Optional[str]
None == [isNone |-> TRUE, str |-> << >>]
Str(v) == [isNone |-> FALSE, str |-> v]

\* Python truthiness of an Optional[str]: None and "" are both falsy
Truthy(x) == ~x.isNone /\ x.str # << >>

\* k in self
Contains(c, k) == \E i \in 1..Len(c) : c[i].k = k

\* self[k]
ValueOf(c, k) == c[CHOOSE i \in 1..Len(c) : c[i].k = k].v

\* OrderedDict.pop(k) on a key that is present: the entry is removed
DictPop(c, k) == SelectSeq(c, LAMBDA e : e.k # k)

\* OrderedDict.__setitem__(k, v): a new key goes to the end, an existing key
\* keeps its position and takes the new value
DictSetItem(c, k, v) ==
  IF Contains(c, k)
  THEN [i \in 1..Len(c) |-> IF c[i].k = k THEN [k |-> k, v |-> v] ELSE c[i]]
  ELSE Append(c, [k |-> k, v |-> v])

\* OrderedDict.popitem(last=False) on a non-empty dict: the first entry goes
PopItemFirst(c) == Tail(c)

\* a get that leaves the order alone
LRU_get_NoTouch(c, k) ==
  IF Contains(c, k) THEN [cache |-> c, ret |-> Str(ValueOf(c, k))]
  ELSE [cache |-> c, ret |-> None]

\* LRU.get(k): the cache after the call and the value returned
LRU_get(c, k) ==
  IF Contains(c, k)
  THEN LET v == ValueOf(c, k)
       IN  [cache |-> DictSetItem(DictPop(c, k), k, v), ret |-> Str(v)]
  ELSE [cache |-> c, ret |-> None]

\* a put that never evicts
LRU_put_NoEvict(c, n, k, v) ==
  IF Contains(c, k)
  THEN [cache |-> DictSetItem(DictPop(c, k), k, v), raised |-> "none"]
  ELSE [cache |-> DictSetItem(c, k, v), raised |-> "none"]

\* a put that overwrites an existing key where it stands
LRU_put_InPlace(c, n, k, v) ==
  IF Contains(c, k)
  THEN [cache |-> DictSetItem(c, k, v), raised |-> "none"]
  ELSE IF Len(c) >= n
       THEN IF c = << >>
            THEN [cache |-> c, raised |-> "KeyError"]
            ELSE [cache |-> DictSetItem(PopItemFirst(c), k, v), raised |-> "none"]
       ELSE [cache |-> DictSetItem(c, k, v), raised |-> "none"]

\* LRU.put(k, v) on a cache of maxsize n: the cache after the call, and
\* "KeyError" when popitem is called on an empty dict (the insertion is then
\* not reached)
LRU_put(c, n, k, v) ==
  IF Contains(c, k)
  THEN [cache |-> DictSetItem(DictPop(c, k), k, v), raised |-> "none"]
  ELSE IF Len(c) >= n
       THEN IF c = << >>
            THEN [cache |-> c, raised |-> "KeyError"]
            ELSE [cache |-> DictSetItem(PopItemFirst(c), k, v), raised |-> "none"]
       ELSE [cache |-> DictSetItem(c, k, v), raised |-> "none"]

(***************************************************************************)
(* The cache on its own: any sequence of get and put calls.                *)
(***************************************************************************)
Keys == {<<"A">>, <<"B">>, <<"C">>, <<"D">>}
Values == {<< >>, <<"1">>}

NoCall ==
  [op |-> "init", k |-> << >>, v |-> << >>, ret |-> None, raised |-> "none",
   before |-> << >>]

IdleThreads == << >>
IdleSan == [stage |-> "idle"]
IdleLlm == [pc |-> "idle"]

\* LRU.__init__(maxsize): the size is stored as given; nothing is rejected
LRU_init(n) ==
  /\ maxsize = n
  /\ cache = << >>
  /\ last = NoCall
  /\ clock = 0
  /\ lastUse = [k \in Keys |-> 0]
  /\ insertedAt = [k \in Keys |-> 0]

Get(k) ==
  /\ clock < MaxOps
  /\ LET r == LRU_get(cache, k)
     IN  /\ cache' = r.cache
         /\ last' = [op |-> "get", k |-> k, v |-> << >>, ret |-> r.ret,
                     raised |-> "none", before |-> cache]
         /\ lastUse' = IF Contains(cache, k)
                       THEN [lastUse EXCEPT ![k] = clock + 1] ELSE lastUse
  /\ clock' = clock + 1
  /\ UNCHANGED <<maxsize, streaming, insertedAt, threads, san, llm>>

Put(k, v) ==
  /\ clock < MaxOps
  /\ LET r == LRU_put(cache, maxsize, k, v)
     IN  /\ cache' = r.cache
         /\ last' = [op |-> "put", k |-> k, v |-> v, ret |-> None,
                     raised |-> r.raised, before |-> cache]
         /\ lastUse' = IF r.raised = "none"
                       THEN [lastUse EXCEPT ![k] = clock + 1] ELSE lastUse
         /\ insertedAt' = IF r.raised = "none" /\ ~Contains(cache, k)
                          THEN [insertedAt EXCEPT ![k] = clock + 1] ELSE insertedAt
  /\ clock' = clock + 1
  /\ UNCHANGED <<maxsize, streaming, threads, san, llm>>

Init ==
  /\ \E n \in 1..MaxCap : LRU_init(n)
  /\ streaming = FALSE
  /\ threads = IdleThreads
  /\ san = IdleSan
  /\ llm = IdleLlm

Next ==
  \/ \E k \in Keys : Get(k)
  \/ \E k \in Keys, v \in Values : Put(k, v)

Spec == Init /\ [][Next]_vars

\* the entries of a cache as a set
Entries(c) == {c[i] : i \in 1..Len(c)}

KeysOf(c) == {c[i].k : i \in 1..Len(c)}

\* the last call was a put of a key that was absent, into a full cache
PutOverflowed ==
  /\ last.op = "put"
  /\ ~Contains(last.before, last.k)
  /\ Len(last.before) >= maxsize

\* C1: with capacity N >= 1, after every get and put the cache holds at most
\* N entries, each under a distinct key.
C1_CapacityHeld ==
  maxsize >= 1 =>
    /\ Len(cache) <= maxsize
    /\ Cardinality(KeysOf(cache)) = Len(cache)

C1_Witness == PutOverflowed /\ Len(cache) = maxsize /\ maxsize = MaxCap

\* C2: a put of a new key into a full cache evicts exactly one entry, the one
\* whose last access (a get that found it or a put of it) is the oldest; every
\* other entry stays with its value, and the new entry is added.
C2_EvictsLeastRecentlyUsed ==
  PutOverflowed =>
    \E e \in Entries(last.before) :
      /\ \A o \in Entries(last.before) \ {e} : lastUse[e.k] < lastUse[o.k]
      /\ Entries(cache) =
           (Entries(last.before) \ {e}) \cup {[k |-> last.k, v |-> last.v]}
      /\ Len(cache) = Len(last.before)
      /\ ~Contains(cache, e.k)

\* an eviction that spared an entry inserted before the evicted one, because
\* that entry was read later
C2_Witness ==
  /\ PutOverflowed
  /\ \E e \in Entries(last.before), o \in Entries(cache) :
       /\ ~Contains(cache, e.k)
       /\ o.k # last.k
       /\ insertedAt[o.k] < insertedAt[e.k]
       /\ lastUse[o.k] > lastUse[e.k]

\* C6: put(k, v) of a key already present replaces its value, makes k the
\* most recently used entry, keeps the number of entries and every other
\* entry (and their order), evicts nothing, and a following get(k) returns v.
C6_OverwriteKeepsOthers ==
  (last.op = "put" /\ Contains(last.before, last.k)) =>
    /\ Len(cache) = Len(last.before)
    /\ cache[Len(cache)] = [k |-> last.k, v |-> last.v]
    /\ SubSeq(cache, 1, Len(cache) - 1) = DictPop(last.before, last.k)
    /\ LRU_get(cache, last.k).ret = Str(last.v)

\* an overwrite, with a new value, of the oldest entry of a full cache
C6_Witness ==
  /\ last.op = "put"
  /\ Len(last.before) = maxsize
  /\ maxsize >= 2
  /\ last.before[1].k = last.k
  /\ last.before[1].v # last.v

(***************************************************************************)
(* The cache constructed with any size a caller may pass to LRU().        *)
(***************************************************************************)
InitAnySize ==
  /\ \E n \in 0..MaxCap : LRU_init(n)
  /\ streaming = FALSE
  /\ threads = IdleThreads
  /\ san = IdleSan
  /\ llm = IdleLlm

SpecAnySize == InitAnySize /\ [][Next]_vars

\* C7: capacity is validated at construction (a capacity below 1 is
\* rejected), so on every cache that was constructed no get or put raises.
C7_NoCallRaises == last.raised = "none"

(***************************************************************************)
(* POST /chat, tutor path: one action per request, handled to completion.  *)
(***************************************************************************)
\* payload "message" values
Messages == {<< >>, <<" ">>, <<"q">>, <<" ", "q">>, <<"r">>, <<"s", "\n">>}

\* texts the provider may produce (resp.output_text, or the joined deltas)
RawTexts ==
  {<< >>, <<"a">>, <<"a", " ">>, <<"$", "$", BS, "=", "$", "$">>}

\* f"\n[Stream error: ...]"
StreamErrorText == <<"\n", "[", "e", "r", "r", "]">>

NoRequest ==
  [op |-> "init", q |-> << >>, status |-> "none", providerCalled |-> FALSE,
   providerOk |-> FALSE, raw |-> << >>, reply |-> << >>, before |-> << >>]

\* question = (payload.get("message") or "").strip(); 400 when it is empty
MissingMessage(op) ==
  /\ last' = [NoRequest EXCEPT !.op = op, !.status = "400", !.before = cache]
  /\ UNCHANGED cache

\* the non-streaming path: cache lookup, then get_full_answer and put.
\* ok: the provider call returns; text: resp.output_text or "".
ChatSync(msg, ok, text) ==
  /\ ~streaming
  /\ LET question == Strip(msg)
         g == LRU_get(cache, question)
         answer == sanitize_latex(text)
         p == LRU_put(g.cache, maxsize, question, answer)
         req == [NoRequest EXCEPT !.op = "sync", !.q = question, !.before = cache]
     IN  IF question = << >> THEN MissingMessage("sync")
         ELSE IF Truthy(g.ret)
         THEN /\ cache' = g.cache
              /\ last' = [req EXCEPT !.status = "200", !.reply = g.ret.str]
         ELSE IF ok /\ p.raised = "none"
         THEN /\ cache' = p.cache
              /\ last' = [req EXCEPT !.status = "200", !.providerCalled = TRUE,
                                     !.providerOk = TRUE, !.raw = text,
                                     !.reply = answer]
         ELSE /\ cache' = g.cache
              /\ last' = [req EXCEPT !.status = "500", !.providerCalled = TRUE,
                                     !.providerOk = ok, !.raw = text]
  /\ UNCHANGED <<maxsize, streaming, clock, lastUse, insertedAt, threads, san, llm>>

\* the streaming path, generate(): the deltas are collected, the sanitized
\* text is yielded when the stream ends, an error line when it breaks, and
\* the finally block stores whatever was collected.
\* ok: the stream ended without error; text: "".join(parts).
ChatStream(msg, ok, text) ==
  /\ streaming
  /\ LET question == Strip(msg)
         stored == Strip(text)
         p == LRU_put(cache, maxsize, question, sanitize_latex(stored))
         req == [NoRequest EXCEPT !.op = "stream", !.q = question, !.before = cache]
     IN  IF question = << >> THEN MissingMessage("stream")
         ELSE /\ cache' = IF stored # << >> THEN p.cache ELSE cache
              /\ last' = [req EXCEPT !.status = "200", !.providerCalled = TRUE,
                                     !.providerOk = ok, !.raw = text,
                                     !.reply = IF ok THEN sanitize_latex(text)
                                               ELSE StreamErrorText]
  /\ UNCHANGED <<maxsize, streaming, clock, lastUse, insertedAt, threads, san, llm>>

InitChat ==
  /\ \E n \in 1..MaxCap : maxsize = n
  /\ cache = << >>
  /\ streaming \in BOOLEAN
  /\ last = NoRequest
  /\ clock = 0
  /\ lastUse = [k \in Keys |-> 0]
  /\ insertedAt = [k \in Keys |-> 0]
  /\ threads = IdleThreads
  /\ san = IdleSan
  /\ llm = IdleLlm

NextChat ==
  \/ \E msg \in Messages, text \in RawTexts : ChatSync(msg, TRUE, text)
  \/ \E msg \in Messages : ChatSync(msg, FALSE, << >>)
  \/ \E msg \in Messages, ok \in BOOLEAN, text \in RawTexts : ChatStream(msg, ok, text)

SpecChat == InitChat /\ [][NextChat]_vars

\* the last request was a tutor request with a non-empty trimmed question
TutorRequest == last.op \in {"sync", "stream"} /\ last.status # "400"

\* C4: once an answer, the empty string included, is stored for q, the next
\* lookup of q by the handler is a hit: the cached answer is the reply and
\* the provider is not called.
C4_EmptyAnswerIsHit ==
  (TutorRequest /\ last.op = "sync" /\ Contains(last.before, last.q)) =>
    /\ ~last.providerCalled
    /\ last.reply = ValueOf(last.before, last.q)

\* C5: in both modes the question is looked up first; the provider is called
\* only on a miss; on a miss whose provider call returns, the sanitized
\* result is stored under the trimmed question and is the reply; a cached
\* question is answered from the cache.
C5_LookupThenProviderOnMiss ==
  TutorRequest =>
    /\ last.providerCalled <=> ~Contains(last.before, last.q)
    /\ (last.providerCalled /\ last.providerOk) =>
         /\ Contains(cache, last.q)
         /\ ValueOf(cache, last.q) = sanitize_latex(last.raw)
         /\ last.reply = sanitize_latex(last.raw)
    /\ ~last.providerCalled => last.reply = ValueOf(last.before, last.q)

\* C11: a tutor request whose provider call fails writes no entry: the
\* cache holds after it exactly the entries it held before, in both modes.
C11_FailedCallWritesNothing ==
  (TutorRequest /\ last.providerCalled /\ ~last.providerOk) =>
    Entries(cache) = Entries(last.before)

(***************************************************************************)
(* sanitize_latex stage by stage, on texts built from a few fragments, and *)
(* applied once more to its own output.                                    *)
(***************************************************************************)
Tokens ==
  {<<BS>>, <<"$", "$">>, <<BS, "(">>, <<BS, ")">>, <<BS, "=">>, <<"[">>, <<"]">>,
   <<"6", "p", "t", "]">>, <<"a">>, <<BS, "l", "e", "f", "t">>}

RECURSIVE TextsOf(_)
TextsOf(n) ==
  IF n = 0 THEN {<< >>}
  ELSE LET shorter == TextsOf(n - 1)
       IN  shorter \cup {t \o tok : t \in shorter, tok \in Tokens}

InitSan ==
  /\ maxsize = 1
  /\ cache = << >>
  /\ streaming = FALSE
  /\ last = NoCall
  /\ clock = 0
  /\ lastUse = [k \in Keys |-> 0]
  /\ insertedAt = [k \in Keys |-> 0]
  /\ threads = IdleThreads
  /\ llm = IdleLlm
  /\ \E raw \in TextsOf(MaxTokens) :
       san = [stage |-> "raw", raw |-> raw, s1 |-> << >>, s2 |-> << >>,
              sD |-> << >>, out |-> << >>, again |-> << >>]

NotSan == <<maxsize, cache, streaming, last, clock, lastUse, insertedAt, threads, llm>>

\* s = _collapse_command_backslashes(s)
SanCollapse ==
  /\ san.stage = "raw"
  /\ san' = [san EXCEPT !.stage = "collapsed",
                        !.s1 = collapse_command_backslashes(san.raw)]
  /\ UNCHANGED NotSan

\* s = re.sub(<layout directive>, "", s)
SanStrip ==
  /\ san.stage = "collapsed"
  /\ san' = [san EXCEPT !.stage = "stripped", !.s2 = strip_directives(san.s1)]
  /\ UNCHANGED NotSan

SanDisplay ==
  /\ san.stage = "stripped"
  /\ san' = [san EXCEPT !.stage = "display", !.sD = fix_display_spans(san.s2)]
  /\ UNCHANGED NotSan

SanInline ==
  /\ san.stage = "display"
  /\ san' = [san EXCEPT !.stage = "done", !.out = fix_inline_spans(san.sD)]
  /\ UNCHANGED NotSan

\* sanitize_latex applied to the text it returned
SanAgain ==
  /\ san.stage = "done"
  /\ san' = [san EXCEPT !.stage = "again", !.again = sanitize_latex(san.out)]
  /\ UNCHANGED NotSan

NextSan == SanCollapse \/ SanStrip \/ SanDisplay \/ SanInline \/ SanAgain

SpecSan == InitSan /\ [][NextSan]_vars

\* C8: sanitize_latex(sanitize_latex(s)) = sanitize_latex(s) for every s.
C8_Idempotent == san.stage = "again" => san.again = san.out

\* The text outside the spans open(.*?)close of s, delimiters included: the
\* pieces before, between and after the span interiors, in order.
RECURSIVE OutsideFrom(_, _, _, _)
OutsideFrom(s, open, close, i) ==
  LET o == Find(s, open, i)
      c == IF o = 0 THEN 0 ELSE Find(s, close, o + Len(open))
  IN  IF c = 0 THEN <<Tail_from(s, i)>>
      ELSE <<SubSeq(s, i, o + Len(open) - 1)>>
             \o OutsideFrom(s, open, close, c)

Outside(s, open, close) == OutsideFrom(s, open, close, 1)

Requests == {1, 2}

ConcTexts == {<< >>, <<"a">>}

IdleRequest == [pc |-> "idle", k |-> << >>, v |-> << >>, failed |-> "none"]

NotThreads == <<maxsize, streaming, last, clock, lastUse, insertedAt, san, llm>>

InitConc ==
  /\ \E n \in 1..MaxCap : maxsize = n
  /\ cache = << >>
  /\ streaming \in BOOLEAN
  /\ last = NoRequest
  /\ clock = 0
  /\ lastUse = [k \in Keys |-> 0]
  /\ insertedAt = [k \in Keys |-> 0]
  /\ threads = [t \in Requests |-> IdleRequest]
  /\ san = IdleSan
  /\ llm = IdleLlm

Goto(t, pc) == threads' = [threads EXCEPT ![t].pc = pc]

\* an exception leaves the cache call; the request ends with it
Raise(t, exc) == threads' = [threads EXCEPT ![t].pc = "done", ![t].failed = exc]

\* chat(): a tutor request arrives; 400 at once when the question is empty
Start(t, msg) ==
  /\ threads[t].pc = "idle"
  /\ threads' = [threads EXCEPT
       ![t] = [IdleRequest EXCEPT !.k = Strip(msg),
                 !.pc = IF Strip(msg) = << >> THEN "done"
                        ELSE IF streaming THEN "provider" ELSE "get_test"]]
  /\ UNCHANGED cache
  /\ UNCHANGED NotThreads

\* LRU.get: if k in self
GetTest(t) ==
  /\ threads[t].pc = "get_test"
  /\ Goto(t, IF Contains(cache, threads[t].k) THEN "get_pop" ELSE "provider")
  /\ UNCHANGED cache
  /\ UNCHANGED NotThreads

\* LRU.get: v = super().pop(k)
GetPop(t) ==
  /\ threads[t].pc = "get_pop"
  /\ IF Contains(cache, threads[t].k)
     THEN /\ threads' = [threads EXCEPT ![t].pc = "get_set",
                                        ![t].v = ValueOf(cache, threads[t].k)]
          /\ cache' = DictPop(cache, threads[t].k)
     ELSE /\ Raise(t, "KeyError")
          /\ UNCHANGED cache
  /\ UNCHANGED NotThreads

\* LRU.get: super().__setitem__(k, v); return v; then "if cached:" in chat()
GetSet(t) ==
  /\ threads[t].pc = "get_set"
  /\ cache' = DictSetItem(cache, threads[t].k, threads[t].v)
  /\ Goto(t, IF Truthy(Str(threads[t].v)) THEN "done" ELSE "provider")
  /\ UNCHANGED NotThreads

\* get_full_answer(question), or the stream consumed by generate()
Provider(t, ok, text) ==
  /\ threads[t].pc = "provider"
  /\ LET answer == IF streaming THEN sanitize_latex(Strip(text))
                   ELSE sanitize_latex(text)
         stores == IF streaming THEN Strip(text) # << >> ELSE ok
     IN  threads' = [threads EXCEPT ![t].v = answer,
                       ![t].pc = IF stores THEN "put_test" ELSE "done"]
  /\ UNCHANGED cache
  /\ UNCHANGED NotThreads

\* LRU.put: if k in self
PutTest(t) ==
  /\ threads[t].pc = "put_test"
  /\ Goto(t, IF Contains(cache, threads[t].k) THEN "put_pop" ELSE "put_len")
  /\ UNCHANGED cache
  /\ UNCHANGED NotThreads

\* LRU.put: super().pop(k)
PutPop(t) ==
  /\ threads[t].pc = "put_pop"
  /\ IF Contains(cache, threads[t].k)
     THEN /\ Goto(t, "put_set")
          /\ cache' = DictPop(cache, threads[t].k)
     ELSE /\ Raise(t, "KeyError")
          /\ UNCHANGED cache
  /\ UNCHANGED NotThreads

\* LRU.put: elif len(self) >= self.maxsize
PutLen(t) ==
  /\ threads[t].pc = "put_len"
  /\ Goto(t, IF Len(cache) >= maxsize THEN "put_popitem" ELSE "put_set")
  /\ UNCHANGED cache
  /\ UNCHANGED NotThreads

\* LRU.put: self.popitem(last=False)
PutPopItem(t) ==
  /\ threads[t].pc = "put_popitem"
  /\ IF cache # << >>
     THEN /\ Goto(t, "put_set")
          /\ cache' = PopItemFirst(cache)
     ELSE /\ Raise(t, "KeyError")
          /\ UNCHANGED cache
  /\ UNCHANGED NotThreads

\* LRU.put: super().__setitem__(k, v)
PutSet(t) ==
  /\ threads[t].pc = "put_set"
  /\ cache' = DictSetItem(cache, threads[t].k, threads[t].v)
  /\ Goto(t, "done")
  /\ UNCHANGED NotThreads

\* the response is sent; the worker takes the next request
Finish(t) ==
  /\ threads[t].pc = "done"
  /\ threads' = [threads EXCEPT ![t] = IdleRequest]
  /\ UNCHANGED cache
  /\ UNCHANGED NotThreads

NextConc ==
  \E t \in Requests :
    \/ \E msg \in Messages : Start(t, msg)
    \/ GetTest(t)
    \/ GetPop(t)
    \/ GetSet(t)
    \/ \E ok \in BOOLEAN, text \in ConcTexts : Provider(t, ok, text)
    \/ PutTest(t)
    \/ PutPop(t)
    \/ PutLen(t)
    \/ PutPopItem(t)
    \/ PutSet(t)
    \/ Finish(t)

SpecConc == InitConc /\ [][NextConc]_vars

\* C3: cache calls of different in-flight requests are serialized: under
\* every interleaving the cache holds at most maxsize entries, no key twice,
\* and no call fails because another request changed the cache between its
\* membership test and its removal or insertion.
C3_CallsSerialized ==
  /\ Len(cache) <= maxsize
  /\ Cardinality(KeysOf(cache)) = Len(cache)
  /\ \A t \in Requests : threads[t].failed = "none"

(***************************************************************************)
(* call_llm_json and its caller handle_analyze_adaptive_quiz.              *)
(***************************************************************************)
\* texts a provider response may carry
LlmTexts ==
  {<<"{", "}">>, <<"x", "{", "}">>, <<"x">>, << >>, <<"[", "]">>,
   <<"{", "x", "}">>}

\* exceptions a create() call may raise
LlmErrors == {"TypeError", "APIError"}

\* the exception classes that "except Exception" catches
IsException(exc) == exc \in {"TypeError", "APIError", "ValueError"}

\* what one create() call does: it raises, or it returns a response
LlmOutcomes ==
  [raises : LlmErrors, text : {<< >>}] \cup [raises : {"none"}, text : LlmTexts]

\* json.loads on the texts above: the kind of value parsed, or "ValueError"
JsonLoads(text) ==
  IF text = <<"{", "}">> THEN "dict"
  ELSE IF text = <<"[", "]">> THEN "list"
  ELSE "ValueError"

\* text.rfind(c): last position of c, 0 when absent
RECURSIVE RFind(_, _, _)
RFind(s, c, i) ==
  IF i < 1 THEN 0 ELSE IF s[i] = c THEN i ELSE RFind(s, c, i - 1)

extract_json_block(text) ==
  LET start == Find(text, <<"{">>, 1)
      end == RFind(text, "}", Len(text))
      candidate == SubSeq(text, start, end)
  IN  IF text # << >> /\ start # 0 /\ end # 0 /\ end > start
         /\ JsonLoads(candidate) # "ValueError"
      THEN candidate
      ELSE << >>

RouteOrder == <<"responses_json", "responses_plain", "chat_json", "chat_plain">>

\* raw_text: the text of a response, or getattr(e, "message", str(e))
ResponseText(route, text) == [kind |-> "response", route |-> route, text |-> text]
ErrorText(route, exc) == [kind |-> "error", route |-> route, text |-> <<exc>>]
NoText == [kind |-> "none", route |-> "none", text |-> << >>]

\* return json.loads(text), text / block extraction / return None, text
ParsedOrBlock(route, text) ==
  LET block == extract_json_block(text)
  IN  [pc |-> "returned",
       json |-> IF JsonLoads(text) # "ValueError" THEN JsonLoads(text)
                ELSE IF block # << >> THEN JsonLoads(block) ELSE "None",
       raw |-> ResponseText(route, text)]

\* return json.loads(block), text / return None, text
BlockOnly(route, text) ==
  LET block == extract_json_block(text)
  IN  [pc |-> "returned",
       json |-> IF block # << >> THEN JsonLoads(block) ELSE "None",
       raw |-> ResponseText(route, text)]

\* return None, last_text if 'last_text' in locals() else None
AllFailed(lastText) == [pc |-> "returned", json |-> "None", raw |-> lastText]

\* an exception that no except clause of the function catches
Propagated == [pc |-> "propagated", json |-> "None", raw |-> NoText]

\* a route 1 that falls through to route 2 when its response does not parse
Route1_FallThrough(o) ==
  IF o.raises = "TypeError" THEN [pc |-> "route2", json |-> "None", raw |-> NoText]
  ELSE IF o.raises # "none"
  THEN [pc |-> "route2", json |-> "None", raw |-> ErrorText("responses_json", o.raises)]
  ELSE IF ParsedOrBlock("responses_json", o.text).json = "None"
  THEN [pc |-> "route2", json |-> "None", raw |-> NoText]
  ELSE ParsedOrBlock("responses_json", o.text)

\* 1) Responses with JSON mode. TypeError: pass; any other exception sets
\* last_text; both go on to route 2.
Route1(o) ==
  IF o.raises = "TypeError" THEN [pc |-> "route2", json |-> "None", raw |-> NoText]
  ELSE IF o.raises # "none"
  THEN IF IsException(o.raises)
       THEN [pc |-> "route2", json |-> "None",
             raw |-> ErrorText("responses_json", o.raises)]
       ELSE Propagated
  ELSE ParsedOrBlock("responses_json", o.text)

\* 2) Responses without JSON mode. Any exception sets last_text.
Route2(o) ==
  IF o.raises # "none"
  THEN IF IsException(o.raises)
       THEN [pc |-> "route3a", json |-> "None",
             raw |-> ErrorText("responses_plain", o.raises)]
       ELSE Propagated
  ELSE BlockOnly("responses_plain", o.text)

\* 3) Chat Completions with response_format. TypeError: retry without it.
\* json.loads(text) is not guarded here: its ValueError reaches the outer
\* except like any other exception, sets last_text and ends the call.
Route3a(o) ==
  IF o.raises = "TypeError" THEN [pc |-> "route3b", json |-> "None", raw |-> NoText]
  ELSE IF o.raises # "none"
  THEN IF IsException(o.raises) THEN AllFailed(ErrorText("chat_json", o.raises))
       ELSE Propagated
  ELSE IF JsonLoads(o.text) = "ValueError"
  THEN IF IsException("ValueError") THEN AllFailed(ErrorText("chat_json", "ValueError"))
       ELSE Propagated
  ELSE [pc |-> "returned", json |-> JsonLoads(o.text),
        raw |-> ResponseText("chat_json", o.text)]

\* 3) Chat Completions without response_format, inside "except TypeError"
Route3b(o) ==
  IF o.raises # "none"
  THEN IF IsException(o.raises) THEN AllFailed(ErrorText("chat_plain", o.raises))
       ELSE Propagated
  ELSE BlockOnly("chat_plain", o.text)

NotLlm == <<maxsize, cache, streaming, last, clock, lastUse, insertedAt, threads, san>>

NoLlmCall ==
  [pc |-> "request", json |-> "None", raw |-> NoText, tried |-> << >>,
   outcomes |-> << >>, response |-> "none"]

InitLlm ==
  /\ maxsize = 1
  /\ cache = << >>
  /\ streaming = FALSE
  /\ last = NoCall
  /\ clock = 0
  /\ lastUse = [k \in Keys |-> 0]
  /\ insertedAt = [k \in Keys |-> 0]
  /\ threads = IdleThreads
  /\ san = IdleSan
  /\ llm = NoLlmCall

\* handle_analyze_adaptive_quiz up to the call: 400 when the csv is empty
AnalyzeStart(csvEmpty) ==
  /\ llm.pc = "request"
  /\ llm' = IF csvEmpty THEN [llm EXCEPT !.pc = "responded", !.response = "400"]
            ELSE [llm EXCEPT !.pc = "route1"]
  /\ UNCHANGED NotLlm

\* one route of call_llm_json: route names the route, step its code
TryRoute(pc, route, r, o) ==
  /\ llm.pc = pc
  /\ llm' = [llm EXCEPT !.pc = r.pc, !.json = r.json,
                        !.raw = IF r.raw = NoText THEN llm.raw ELSE r.raw,
                        !.tried = Append(llm.tried, route),
                        !.outcomes = Append(llm.outcomes, o)]
  /\ UNCHANGED NotLlm

\* handle_analyze_adaptive_quiz after the call
AnalyzeFinish ==
  /\ llm.pc = "returned"
  /\ llm' = [llm EXCEPT !.pc = "responded",
               !.response = IF llm.json = "dict" THEN "json"
                            ELSE "LLM_JSON_PARSE_FAILED"]
  /\ UNCHANGED NotLlm

NextLlm ==
  \/ \E csvEmpty \in BOOLEAN : AnalyzeStart(csvEmpty)
  \/ \E o \in LlmOutcomes : TryRoute("route1", "responses_json", Route1(o), o)
  \/ \E o \in LlmOutcomes : TryRoute("route2", "responses_plain", Route2(o), o)
  \/ \E o \in LlmOutcomes : TryRoute("route3a", "chat_json", Route3a(o), o)
  \/ \E o \in LlmOutcomes : TryRoute("route3b", "chat_plain", Route3b(o), o)
  \/ AnalyzeFinish

SpecLlm == InitLlm /\ [][NextLlm]_vars

\* the call has returned to its caller
LlmReturned == llm.pc \in {"returned", "responded"} /\ llm.tried # << >>

LastTried == llm.tried[Len(llm.tried)]
LastOutcome == llm.outcomes[Len(llm.outcomes)]

\* the routes were tried in the documented order, each later one only after
\* every earlier one raised an exception
RoutesInOrder ==
  /\ llm.tried = SubSeq(RouteOrder, 1, Len(llm.tried))
  /\ \A i \in 1..(Len(llm.outcomes) - 1) : llm.outcomes[i].raises # "none"

\* C10: the routes are tried in order, each only after the earlier ones
\* raised, and raw_text, when not None, is the text of the provider response
\* obtained on the route that ended the call.
C10_RawTextIsResponse ==
  /\ llm.pc # "propagated"
  /\ LlmReturned =>
    /\ RoutesInOrder
    /\ llm.raw.kind # "none" =>
         /\ LastOutcome.raises = "none"
         /\ llm.raw = ResponseText(LastTried, LastOutcome.text)

\* the route that ended the call obtained a response and returned it
EndedWithResponse ==
  /\ LastOutcome.raises = "none"
  /\ ~(LastTried = "chat_json" /\ JsonLoads(LastOutcome.text) = "ValueError")

\* C10 as amended: the routes are tried in order, each only after the
\* earlier ones raised, and no exception leaves the function. raw_text is
\* the text of the response when the route that ended the call returned
\* one; when the call ends because route 3
\* raised (its create() call, or json.loads on the response of the
\* response_format attempt), json_obj is None and raw_text is the message of
\* that last exception.
C10_RawTextIsResponseOrLastError ==
  /\ llm.pc # "propagated"
  /\ LlmReturned =>
    /\ RoutesInOrder
    /\ IF EndedWithResponse
       THEN llm.raw = ResponseText(LastTried, LastOutcome.text)
       ELSE /\ LastTried \in {"chat_json", "chat_plain"}
            /\ llm.json = "None"
            /\ llm.raw = ErrorText(LastTried,
                 IF LastOutcome.raises # "none" THEN LastOutcome.raises
                 ELSE "ValueError")

\* all four attempts were made and the last one raised
C10_Witness ==
  /\ llm.pc = "returned"
  /\ llm.tried = RouteOrder
  /\ llm.raw.kind = "error"

====
